---- MODULE Spec2Model ----
(***************************************************************************)
(* Model of the BWT run-length codec: Ukkonen suffix tree construction     *)
(* (ukkonen_algo.py), Huffman / Elias omega coders and the run-length      *)
(* encoder and decoder (runlength_binary_bwt.py), alphabet map (tools.py). *)
(*                                                                         *)
(* Characters are their ASCII codes, strings are sequences of codes, bit   *)
(* arrays are sequences over {0, 1}.  String positions, phases, extension  *)
(* numbers and leaf numbers are 0-based as in the source; the position p   *)
(* of a Python sequence is element p + 1 of the TLA+ sequence.             *)
(***************************************************************************)
EXTENDS Integers, Sequences, FiniteSets, TLC

\* ------------------------------------------------------------------ bounds
MaxLen == 5        \* longest enumerated input string (sentinel included)
MaxTail == 2       \* longest bit sequence put after the last run
MaxNum == 17       \* length of the cache of the stand-alone EliasCode
MaxCalls == 2      \* distinct numbers one stand-alone EliasCode encodes
MaxBuf == 15       \* longest arbitrary buffer given to RunlengthDecoder
MaxTree == 8       \* longest text before '$' given to a stand-alone tree
MaxFreq == 4       \* largest frequency given to a stand-alone HuffmanCode

\* ------------------------------------------------------------- tools.py
MIN_ASCII_CHAR_NO == 36
MAX_ASCII_CHAR_NO == 126
ASCII_NUM == MAX_ASCII_CHAR_NO - MIN_ASCII_CHAR_NO + 1
NAN == -1
Dollar == 36

\* get_index_from_char that gives 'b' the index of 'a'
get_index_from_char_fold(c) ==
  IF c = 98 THEN 97 - MIN_ASCII_CHAR_NO ELSE c - MIN_ASCII_CHAR_NO

get_index_from_char(c) == c - MIN_ASCII_CHAR_NO
get_char_from_index(index) == index + MIN_ASCII_CHAR_NO

\* Python sequence indexing: position i of a sequence of length n is legal
\* for -n <= i < n and a negative i counts from the end.
PyValid(i, n) == (i >= -n) /\ (i < n)
PyIdx(i, n) == IF i < 0 THEN i + n ELSE i
PyAt(seq, i) == seq[PyIdx(i, Len(seq)) + 1]

\* Python slices binary[:k] and binary[k:] (k >= 0), truncated at the end.
Min(a, b) == IF a < b THEN a ELSE b
Max(a, b) == IF a > b THEN a ELSE b
Take(seq, k) == SubSeq(seq, 1, Min(k, Len(seq)))
Drop(seq, k) == SubSeq(seq, Min(k, Len(seq)) + 1, Len(seq))

\* ------------------------------------------------------ ukkonen_algo.py
global_end == 1000000      \* float("inf"): beyond every string position
None == 0                  \* absent node reference
RootId == 1                \* self.root, the first node allocated

NoEdge == [start_point |-> -1, end_point |-> -1, child_node |-> None]
Edge(start, end, child) ==
  [start_point |-> start, end_point |-> end, child_node |-> child]
\* Node(): empty child table, leaf_num NAN, no suffix link
Node == [children |-> [i \in 0..(ASCII_NUM - 1) |-> NoEdge],
         leaf_num |-> NAN, suffix_link |-> None]

\* The state of a SuffixTree object under construction
TreeState(nds, an, rs, re, lj, pan) ==
  [nodes |-> nds, active_node |-> an, remainder_start |-> rs,
   remainder_end |-> re, last_j |-> lj, prev_added_node |-> pan]

get_remainder_length(t) == t.remainder_end - t.remainder_start + 1

get_edge_length(nds, edge, ph) ==
  LET end_point == IF nds[edge.child_node].leaf_num # NAN
                   THEN ph ELSE edge.end_point
  IN end_point - edge.start_point + 1

\* The while-True loop of skip_count (remainder_length > 0 at entry).
\* Returns the tree state, next_edge_index and whether an IndexError rose.
RECURSIVE skip_loop(_, _, _, _)
skip_loop(str, t, ph, rl) ==
  LET next_edge_index == get_index_from_char(str[t.remainder_start + 1])
  IN IF ~PyValid(next_edge_index, ASCII_NUM)
     THEN [t |-> t, next_edge_index |-> next_edge_index, error |-> TRUE]
     ELSE
       LET next_edge ==
             t.nodes[t.active_node].children[PyIdx(next_edge_index, ASCII_NUM)]
           stop == [t |-> t, next_edge_index |-> next_edge_index,
                    error |-> FALSE]
       IN IF next_edge = NoEdge THEN stop
          ELSE LET len == get_edge_length(t.nodes, next_edge, ph)
               IN IF rl >= len
                  THEN skip_loop(str,
                         [t EXCEPT !.remainder_start =
                                     IF rl - len # 0 THEN @ + len ELSE ph,
                                   !.active_node = next_edge.child_node],
                         ph, rl - len)
                  ELSE stop

skip_count(str, t, ph) ==
  IF get_remainder_length(t) > 0
  THEN skip_loop(str, t, ph, get_remainder_length(t))
  ELSE LET next_edge_index == get_index_from_char(str[ph + 1])
       IN [t |-> t, next_edge_index |-> next_edge_index,
           error |-> ~PyValid(next_edge_index, ASCII_NUM)]

\* suffix_extension: rule = 1 for rule 2 case 1, 2 for rule 2 case 2,
\* 3 for rule 3; brk is the returned boolean.  error: the child table of
\* the new internal node is indexed with the phase character (line 245),
\* which skip_count has not looked up when the remainder is not empty.
suffix_extension(str, t, ph, jj, next_edge_index) ==
  LET slot == PyIdx(next_edge_index, ASCII_NUM)
      an == t.active_node
      next_edge == t.nodes[an].children[slot]
      n == Len(t.nodes)
  IN IF next_edge = NoEdge
     THEN \* rule 2 case 1: new leaf edge under the active node
       LET nds1 == Append([t.nodes EXCEPT ![an].children[slot] =
                                      Edge(ph, global_end, n + 1)],
                          [Node EXCEPT !.leaf_num = jj])
           nds2 == IF t.prev_added_node # None
                   THEN [nds1 EXCEPT ![t.prev_added_node].suffix_link = an]
                   ELSE nds1
       IN [t |-> [t EXCEPT !.nodes = nds2, !.last_j = @ + 1,
                           !.prev_added_node = None],
           brk |-> FALSE, rule |-> 1, error |-> FALSE]
     ELSE
       LET len_remainder == IF t.remainder_end < t.remainder_start
                            THEN 0 ELSE get_remainder_length(t)
           char_to_check_index == next_edge.start_point + len_remainder
       IN IF str[char_to_check_index + 1] = str[ph + 1]
          THEN \* rule 3: the character is already on the edge
            LET nds1 == IF t.prev_added_node # None
                        THEN [t.nodes EXCEPT
                                ![t.prev_added_node].suffix_link = an]
                        ELSE t.nodes
            IN [t |-> [t EXCEPT !.nodes = nds1,
                                !.remainder_start = next_edge.start_point,
                                !.remainder_end = char_to_check_index],
                brk |-> TRUE, rule |-> 3, error |-> FALSE]
          ELSE \* rule 2 case 2: split the edge with a new internal node
            LET internal == n + 1
                leaf == n + 2
                new_extended_edge == Edge(char_to_check_index,
                                          next_edge.end_point,
                                          next_edge.child_node)
                new_branch_edge == Edge(ph, global_end, leaf)
                slotA == PyIdx(get_index_from_char(
                                 str[char_to_check_index + 1]), ASCII_NUM)
                indexB == get_index_from_char(str[ph + 1])
                slotB == PyIdx(indexB, ASCII_NUM)
                ch1 == [Node.children EXCEPT ![slotA] = new_extended_edge]
                ch2 == IF PyValid(indexB, ASCII_NUM)
                       THEN [ch1 EXCEPT ![slotB] = new_branch_edge] ELSE ch1
                nds1 == [t.nodes EXCEPT ![an].children[slot] =
                           Edge(next_edge.start_point,
                                char_to_check_index - 1, internal)]
                nds2 == nds1 \o
                        << [children |-> ch2, leaf_num |-> NAN,
                            suffix_link |-> RootId],
                           [Node EXCEPT !.leaf_num = jj] >>
                nds3 == IF t.prev_added_node # None
                        THEN [nds2 EXCEPT
                                ![t.prev_added_node].suffix_link = internal]
                        ELSE nds2
            IN [t |-> [t EXCEPT !.nodes = nds3, !.last_j = @ + 1,
                                !.prev_added_node = internal],
                brk |-> FALSE, rule |-> 2,
                error |-> ~PyValid(indexB, ASCII_NUM)]

\* suffix_link_jump without the root case: the remainder keeps its first
\* character when the active node is the root
suffix_link_jump_no_trim(t) ==
  IF t.active_node # RootId
  THEN [t EXCEPT !.active_node = t.nodes[t.active_node].suffix_link]
  ELSE t

suffix_link_jump(t) ==
  IF t.active_node = RootId /\ get_remainder_length(t) > 0
  THEN [t EXCEPT !.remainder_start = @ + 1]
  ELSE IF t.active_node # RootId
       THEN [t EXCEPT !.active_node = t.nodes[t.active_node].suffix_link]
       ELSE t

\* The elements of a finite set of integers in ascending order: the order
\* in which a loop over a fixed-size table meets its non-empty entries.
RECURSIVE Ascending(_)
Ascending(S) ==
  IF S = {} THEN <<>>
  ELSE LET m == CHOOSE x \in S : \A y \in S : x <= y
       IN <<m>> \o Ascending(S \ {m})

\* dfs: children in table order, a leaf child appends its leaf_num and is
\* then searched itself.  dfs_over walks the non-empty slots from the k-th.
RECURSIVE dfs_over(_, _, _, _)
dfs_over(nds, node, slots, k) ==
  IF k > Len(slots) THEN <<>>
  ELSE LET child == nds[node].children[slots[k]]
           below == child.child_node
       IN (IF nds[below].leaf_num # NAN
           THEN <<nds[below].leaf_num>> ELSE <<>>)
          \o dfs_over(nds, below,
                 Ascending({i \in 0..(ASCII_NUM - 1) :
                              nds[below].children[i] # NoEdge}), 1)
          \o dfs_over(nds, node, slots, k + 1)

dfs(nds, node) ==
  dfs_over(nds, node,
           Ascending({i \in 0..(ASCII_NUM - 1) :
                        nds[node].children[i] # NoEdge}), 1)

get_suffix_array(nds) == dfs(nds, RootId)

\* ------------------------------------------------- bit array helpers
Zeros(k) == [i \in 1..k |-> 0]

\* decimal_to_binary: repeated division by 2, remainders put at the front
RECURSIVE decimal_to_binary(_)
decimal_to_binary(num) ==
  IF num > 0 THEN decimal_to_binary(num \div 2) \o <<num % 2>> ELSE <<>>

\* int(bits.to01(), 2) for a non-empty bit array
RECURSIVE BitsToInt(_)
BitsToInt(bits) ==
  IF bits = <<>> THEN 0
  ELSE 2 * BitsToInt(SubSeq(bits, 1, Len(bits) - 1)) + bits[Len(bits)]

\* ---------------------------------------------- heapq (binary min-heap)
HuffmanNode(frequency, data) ==
  [freq |-> frequency, data |-> data, left |-> <<>>, right |-> <<>>]

HuffmanLt(self, other_node) == self.freq < other_node.freq

\* HuffmanAdd with the two children exchanged
HuffmanAdd_swapped(self, other_node) ==
  [freq |-> self.freq + other_node.freq,
   data |-> self.data \o other_node.data,
   left |-> <<other_node>>, right |-> <<self>>]

HuffmanAdd(self, other_node) ==
  [freq |-> self.freq + other_node.freq,
   data |-> self.data \o other_node.data,
   left |-> <<self>>, right |-> <<other_node>>]

RECURSIVE siftdown(_, _, _, _)
siftdown(heap, startpos, pos, newitem) ==
  IF pos > startpos
  THEN LET parentpos == (pos - 1) \div 2
           parent == heap[parentpos + 1]
       IN IF HuffmanLt(newitem, parent)
          THEN siftdown([heap EXCEPT ![pos + 1] = parent],
                        startpos, parentpos, newitem)
          ELSE [heap EXCEPT ![pos + 1] = newitem]
  ELSE [heap EXCEPT ![pos + 1] = newitem]

heappush(heap, item) == siftdown(Append(heap, item), 0, Len(heap), item)

\* the bubbling loop of _siftup: the smaller child moves up until a leaf
RECURSIVE siftup_loop(_, _)
siftup_loop(heap, pos) ==
  LET endpos == Len(heap)
      childpos == 2 * pos + 1
      rightpos == childpos + 1
  IN IF childpos < endpos
     THEN LET c == IF rightpos < endpos
                      /\ ~HuffmanLt(heap[childpos + 1], heap[rightpos + 1])
                   THEN rightpos ELSE childpos
          IN siftup_loop([heap EXCEPT ![pos + 1] = heap[c + 1]], c)
     ELSE [heap |-> heap, pos |-> pos]

siftup(heap, pos) ==
  LET newitem == heap[pos + 1]
      r == siftup_loop(heap, pos)
  IN siftdown(r.heap, pos, r.pos, newitem)

\* heappop returns the popped item and the heap left
heappop(heap) ==
  LET lastelt == heap[Len(heap)]
      rest == SubSeq(heap, 1, Len(heap) - 1)
  IN IF rest # <<>>
     THEN [item |-> rest[1], heap |-> siftup([rest EXCEPT ![1] = lastelt], 0)]
     ELSE [item |-> lastelt, heap |-> rest]

\* ---------------------------------------------------------- HuffmanCode
NoCode == <<2>>            \* the None entries of letters_encoding

\* get_freq_heap: one push per non-zero entry of freq_arr, in index order
RECURSIVE freq_heap_from(_, _, _, _)
freq_heap_from(freq_arr, indexes, k, heap) ==
  IF k > Len(indexes) THEN heap
  ELSE freq_heap_from(freq_arr, indexes, k + 1,
         heappush(heap, HuffmanNode(freq_arr[indexes[k] + 1],
                                    <<get_char_from_index(indexes[k])>>)))

get_freq_heap(freq_arr) ==
  freq_heap_from(freq_arr,
    Ascending({i \in 0..(Len(freq_arr) - 1) : freq_arr[i + 1] # 0}), 1, <<>>)

RECURSIVE build_loop(_)
build_loop(heap) ==
  IF Len(heap) > 1
  THEN LET p1 == heappop(heap)
           p2 == heappop(p1.heap)
       IN build_loop(heappush(p2.heap, HuffmanAdd(p1.item, p2.item)))
  ELSE heap

\* The rounds of build_tree's while loop (lines 118-126): the heap before
\* the round, the two nodes popped and the combined node pushed
RECURSIVE build_rounds(_)
build_rounds(heap) ==
  IF Len(heap) > 1
  THEN LET p1 == heappop(heap)
           p2 == heappop(p1.heap)
           combined == HuffmanAdd(p1.item, p2.item)
       IN << [before |-> heap, first |-> p1.item, second |-> p2.item,
              combined |-> combined] >>
          \o build_rounds(heappush(p2.heap, combined))
  ELSE <<>>

\* freq_heap[0] of the final heap (the heap is never empty here)
build_tree(freq_arr) == build_loop(get_freq_heap(freq_arr))[1]

\* letters_from that appends 0 for the right child as well
RECURSIVE letters_from_zero_right(_, _, _)
letters_from_zero_right(node, bitstring, enc) ==
  LET e1 == IF node.left # <<>>
            THEN letters_from_zero_right(node.left[1], bitstring \o <<0>>, enc)
            ELSE enc
      e2 == IF node.right # <<>>
            THEN letters_from_zero_right(node.right[1], bitstring \o <<0>>, e1)
            ELSE e1
  IN IF node.left = <<>> /\ node.right = <<>>
     THEN [e2 EXCEPT ![PyIdx(get_index_from_char(node.data[1]),
                             ASCII_NUM) + 1] = bitstring]
     ELSE e2

RECURSIVE letters_from(_, _, _)
letters_from(node, bitstring, enc) ==
  LET e1 == IF node.left # <<>>
            THEN letters_from(node.left[1], bitstring \o <<0>>, enc) ELSE enc
      e2 == IF node.right # <<>>
            THEN letters_from(node.right[1], bitstring \o <<1>>, e1) ELSE e1
  IN IF node.left = <<>> /\ node.right = <<>>
     THEN [e2 EXCEPT ![PyIdx(get_index_from_char(node.data[1]),
                             ASCII_NUM) + 1] = bitstring]
     ELSE e2

get_letters_encoding(freq_arr) ==
  letters_from(build_tree(freq_arr), <<>>, [i \in 1..ASCII_NUM |-> NoCode])

HuffmanEncode(letters, char) ==
  letters[PyIdx(get_index_from_char(char), ASCII_NUM) + 1]

\* ------------------------------------------------------------ EliasCode
\* EliasCode(length).encoded_num: <<>> stands for the None entries
EliasMemo(length) == [i \in 1..length |-> <<>>]

\* elias_loop without line 222: length components keep their leading 1
RECURSIVE elias_loop_keep_bit(_, _)
elias_loop_keep_bit(encoded_bin, final_encoded_bin) ==
  IF Len(encoded_bin) > 1
  THEN LET eb == decimal_to_binary(Len(encoded_bin) - 1)
       IN elias_loop_keep_bit(eb, eb \o final_encoded_bin)
  ELSE final_encoded_bin

RECURSIVE elias_loop(_, _)
elias_loop(encoded_bin, final_encoded_bin) ==
  IF Len(encoded_bin) > 1
  THEN LET length_comp == Len(encoded_bin) - 1
           eb == [decimal_to_binary(length_comp) EXCEPT ![1] = 0]
       IN elias_loop(eb, eb \o final_encoded_bin)
  ELSE final_encoded_bin

\* lines 212-225: the code word computed on a cache miss
elias_code(num) == elias_loop(decimal_to_binary(num), decimal_to_binary(num))

\* EliasCode.encode: the cache entry num - 1 is read with Python indexing
EliasEncode(memo, num) ==
  IF ~PyValid(num - 1, Len(memo))
  THEN [error |-> TRUE, bits |-> <<>>, memo |-> memo]
  ELSE LET slot == PyIdx(num - 1, Len(memo)) + 1
       IN IF memo[slot] # <<>>
          THEN [error |-> FALSE, bits |-> memo[slot], memo |-> memo]
          ELSE [error |-> FALSE, bits |-> elias_code(num),
                memo |-> [memo EXCEPT ![slot] = elias_code(num)]]

RECURSIVE elias_decode_loop(_, _)
elias_decode_loop(binary, length_to_check) ==
  LET head == Take(binary, length_to_check)
  IN IF head = <<>>
     THEN [error |-> TRUE, binary |-> binary, num |-> 0]
     ELSE IF head[1] = 0
          THEN elias_decode_loop(Drop(binary, length_to_check),
                                 BitsToInt([head EXCEPT ![1] = 1]) + 1)
          ELSE [error |-> FALSE, binary |-> Drop(binary, length_to_check),
                num |-> BitsToInt(head)]

EliasDecode(binary) == elias_decode_loop(binary, 1)

\* ----------------------------------------------------- RunlengthEncoder
\* get_bwt line 303: the character before each suffix, cyclically
get_bwt(str, suffix_arr) ==
  [k \in 1..Len(suffix_arr) |-> str[((suffix_arr[k] - 1) % Len(str)) + 1]]

\* get_freq_arr: characters in order of first appearance, and the counts
RECURSIVE freq_from(_, _, _, _)
freq_from(bwt, k, unique_char_arr, freq_arr) ==
  IF k > Len(bwt)
  THEN [unique_char_arr |-> unique_char_arr, freq_arr |-> freq_arr]
  ELSE LET slot == PyIdx(get_index_from_char(bwt[k]), ASCII_NUM) + 1
       IN freq_from(bwt, k + 1,
            IF freq_arr[slot] = 0
            THEN Append(unique_char_arr, bwt[k]) ELSE unique_char_arr,
            [freq_arr EXCEPT ![slot] = @ + 1])

get_freq_arr(bwt) == freq_from(bwt, 1, <<>>, [i \in 1..ASCII_NUM |-> 0])

\* ascii_binary without the zero padding of line 363
ascii_binary_unpadded(char) == decimal_to_binary(char)

\* lines 362-364: the ASCII code on 7 bits, zero-padded on the left
ascii_binary(char) ==
  Zeros(Max(0, 7 - Len(decimal_to_binary(char)))) \o decimal_to_binary(char)

\* lines 360-373: one header entry per element of unique_char_arr
RECURSIVE header_loop(_, _, _, _, _)
header_loop(unique_char_arr, k, letters, memo, acc) ==
  IF k > Len(unique_char_arr)
  THEN [error |-> FALSE, bits |-> acc, memo |-> memo]
  ELSE LET char == unique_char_arr[k]
           char_huffman_encode == HuffmanEncode(letters, char)
           e == EliasEncode(memo, Len(char_huffman_encode))
       IN IF e.error THEN [error |-> TRUE, bits |-> acc, memo |-> memo]
          ELSE header_loop(unique_char_arr, k + 1, letters, e.memo,
                 acc \o ascii_binary(char) \o e.bits \o char_huffman_encode)

\* run_scan that closes a run at every character
RECURSIVE run_scan_single(_, _, _, _, _)
run_scan_single(bwt, index, current_char, current_char_count, acc) ==
  IF index >= Len(bwt)
  THEN Append(acc, <<current_char, current_char_count>>)
  ELSE run_scan_single(bwt, index + 1, bwt[index + 1], 1,
                       Append(acc, <<current_char, current_char_count>>))

\* lines 376-395: the (current_char, current_char_count) pairs handed to
\* encode_runlength, in order
RECURSIVE run_scan(_, _, _, _, _)
run_scan(bwt, index, current_char, current_char_count, acc) ==
  IF index >= Len(bwt)
  THEN Append(acc, <<current_char, current_char_count>>)
  ELSE IF bwt[index + 1] = current_char
       THEN run_scan(bwt, index + 1, current_char,
                     current_char_count + 1, acc)
       ELSE run_scan(bwt, index + 1, bwt[index + 1], 1,
                     Append(acc, <<current_char, current_char_count>>))

\* encode_runlength applied to the pairs in order, with the shared cache
RECURSIVE body_loop(_, _, _, _, _)
body_loop(pairs, k, letters, memo, acc) ==
  IF k > Len(pairs) THEN [error |-> FALSE, bits |-> acc, memo |-> memo]
  ELSE LET e == EliasEncode(memo, pairs[k][2])
       IN IF e.error THEN [error |-> TRUE, bits |-> acc, memo |-> memo]
          ELSE body_loop(pairs, k + 1, letters, e.memo,
                 acc \o HuffmanEncode(letters, pairs[k][1]) \o e.bits)

\* Pad that adds a whole byte to an already aligned stream
Pad_full_byte(bits) == bits \o Zeros(8 - (Len(bits) % 8))

\* line 398: zero bits up to the next multiple of 8
Pad(bits) == bits \o Zeros((-Len(bits)) % 8)

\* RunlengthEncoder.encode: prefix is Elias(length) ++ Elias(#unique),
\* header the per-character entries, body the encoded runs.
RunlengthEncode(length, bwt, unique_char_arr, letters, memo) ==
  LET e1 == EliasEncode(memo, length)
      e2 == EliasEncode(e1.memo, Len(unique_char_arr))
      h == header_loop(unique_char_arr, 1, letters, e2.memo, <<>>)
      pairs == run_scan(bwt, 1, bwt[1], 1, <<>>)
      b == body_loop(pairs, 1, letters, h.memo, <<>>)
      all == e1.bits \o e2.bits \o h.bits \o b.bits
  IN IF e1.error \/ e2.error \/ h.error \/ b.error
     THEN [error |-> TRUE, prefix |-> <<>>, header |-> <<>>, runs |-> <<>>,
           body |-> <<>>, unpadded |-> <<>>, bits |-> <<>>, memo |-> memo]
     ELSE [error |-> FALSE, prefix |-> e1.bits \o e2.bits, header |-> h.bits,
           runs |-> pairs, body |-> b.bits, unpadded |-> all,
           bits |-> Pad(all), memo |-> b.memo]

\* ----------------------------------------------------- RunlengthDecoder
\* decoding_table: a function from code (bit sequence) to character;
\* add_to_decoder_table overwrites an existing key.
EmptyTable == [c \in {} |-> 0]
add_to_decoder_table(table, binary, char) ==
  [c \in (DOMAIN table) \cup {binary} |->
     IF c = binary THEN char ELSE table[c]]

TableValues(table) == {table[c] : c \in DOMAIN table}

\* lines 532-550: u header entries; int() of an empty slice raises
RECURSIVE decode_header(_, _, _)
decode_header(binary, count, table) ==
  IF count <= 0 THEN [error |-> FALSE, binary |-> binary, table |-> table]
  ELSE LET ascii_bin == Take(binary, 7)
           e == EliasDecode(Drop(binary, 7))
       IN IF ascii_bin = <<>> \/ e.error
          THEN [error |-> TRUE, binary |-> binary, table |-> table]
          ELSE decode_header(Drop(e.binary, e.num), count - 1,
                 add_to_decoder_table(table, Take(e.binary, e.num),
                                      BitsToInt(ascii_bin)))

\* The shortest huffman_code_count >= 1 whose prefix is a key of the
\* table; 0 when no count ever matches (the while loop then never ends,
\* since binary[:count] stays the whole buffer once count passes its end).
ShortestCode(binary, table) ==
  LET hits == {c \in 1..Max(1, Len(binary)) : Take(binary, c) \in DOMAIN table}
  IN IF hits = {} THEN 0 ELSE CHOOSE c \in hits : \A d \in hits : c <= d

\* lines 553-574: runs are read until length has dropped to 0 or below
RECURSIVE decode_body(_, _, _, _)
decode_body(binary, table, length, bwt_string) ==
  IF length <= 0
  THEN [status |-> "ok", binary |-> binary, bwt |-> bwt_string]
  ELSE LET c == ShortestCode(binary, table)
       IN IF c = 0
          THEN [status |-> "diverge", binary |-> binary, bwt |-> bwt_string]
          ELSE LET char == table[Take(binary, c)]
                   e == EliasDecode(Drop(binary, c))
               IN IF e.error
                  THEN [status |-> "error", binary |-> binary,
                        bwt |-> bwt_string]
                  ELSE decode_body(e.binary, table, length - e.num,
                         bwt_string \o [i \in 1..e.num |-> char])

\* get_bwt_rank, lines 436-445: first-column start rows, in index order
\* over the non-zero counts
RECURSIVE rank_from(_, _, _, _, _, _)
rank_from(char_count, indexes, k, prev_count, prev_rank, rank) ==
  IF k > Len(indexes) THEN rank
  ELSE rank_from(char_count, indexes, k + 1, char_count[indexes[k] + 1],
                 prev_count + prev_rank,
                 [rank EXCEPT ![indexes[k] + 1] = prev_count + prev_rank])

\* lines 431-434: the character counts of the BWT string
RECURSIVE char_count_from(_, _, _)
char_count_from(bwt_string, k, char_count) ==
  IF k > Len(bwt_string) THEN char_count
  ELSE char_count_from(bwt_string, k + 1,
         [char_count EXCEPT
            ![PyIdx(get_index_from_char(bwt_string[k]), ASCII_NUM) + 1]
               = @ + 1])

get_bwt_rank(bwt_string) ==
  LET char_count ==
        char_count_from(bwt_string, 1, [i \in 1..ASCII_NUM |-> 0])
  IN rank_from(char_count,
       Ascending({i \in 0..(ASCII_NUM - 1) : char_count[i + 1] # 0}),
       1, 0, 0, [i \in 1..ASCII_NUM |-> NAN])

\* occ_list that leaves out the position itself (count over bwt[0..index-1])
occ_list_exclusive(bwt_string, occ_index, index) ==
  Cardinality({k \in 1..index :
                 bwt_string[k] = get_char_from_index(occ_index)})

\* get_bwt_occurrences: the list of slot occ_index counts the positions
\* whose letter equals get_char_from_index(occ_index)
RECURSIVE occ_list(_, _, _)
occ_list(bwt_string, occ_index, index) ==
  LET add_value == IF get_char_from_index(occ_index) = bwt_string[index + 1]
                   THEN 1 ELSE 0
  IN IF index = 0 THEN add_value
     ELSE occ_list(bwt_string, occ_index, index - 1) + add_value

\* lines 505-516: the LF walk; more than len(bwt) + 1 rounds without
\* meeting '$' revisit a position, so the loop never ends
RECURSIVE lf_walk(_, _, _, _, _)
lf_walk(bwt_string, bwt_rank, next_pos, original_string, fuel) ==
  LET current_char == PyAt(bwt_string, next_pos)
      slot == PyIdx(get_index_from_char(current_char), ASCII_NUM)
      pos == bwt_rank[slot + 1]
             + occ_list(bwt_string, slot, PyIdx(next_pos, Len(bwt_string)))
             - 1
  IN IF current_char = Dollar
     THEN [status |-> "ok", string |-> original_string]
     ELSE IF fuel = 0
          THEN [status |-> "diverge", string |-> <<>>]
          ELSE IF ~PyValid(pos, Len(bwt_string))
               THEN [status |-> "error", string |-> <<>>]
               ELSE lf_walk(bwt_string, bwt_rank, pos,
                            <<current_char>> \o original_string, fuel - 1)

\* get_string_from_bwt; the table lookups raise IndexError for a
\* character whose index is outside the fixed-size tables
get_string_from_bwt(bwt_string, table) ==
  IF \E c \in (TableValues(table) \cup {bwt_string[k] : k \in DOMAIN bwt_string})
        : ~PyValid(get_index_from_char(c), ASCII_NUM)
  THEN [status |-> "error", string |-> <<>>]
  ELSE lf_walk(bwt_string, get_bwt_rank(bwt_string), 0, <<Dollar>>,
               Len(bwt_string) + 1)

\* RunlengthDecoder.decode
RunlengthDecode(binary) ==
  LET e1 == EliasDecode(binary)
      e2 == EliasDecode(e1.binary)
      h == decode_header(e2.binary, e2.num, EmptyTable)
      b == decode_body(h.binary, h.table, e1.num, <<>>)
      r == get_string_from_bwt(b.bwt, h.table)
      fail(st) == [status |-> st, string |-> <<>>, bwt |-> <<>>]
  IN IF e1.error \/ e2.error \/ h.error THEN fail("error")
     ELSE IF b.status # "ok" THEN fail(b.status)
     ELSE [status |-> r.status, string |-> r.string, bwt |-> b.bwt]

\* ------------------------------------------------------------- inputs
Letters == {97, 98, 99}    \* 'a', 'b', 'c'
BadChars == {33, 127}      \* '!' (below MIN) and DEL (above MAX)

BoundedInputs ==
  UNION {{w \o <<Dollar>> : w \in [1..k -> Letters \cup BadChars]}
         : k \in 0..(MaxLen - 1)}

Banana == <<98, 97, 110, 97, 110, 97, 36>>                     \* "banana$"
Mississippi ==
  <<109, 105, 115, 115, 105, 115, 115, 105, 112, 112, 105, 36>>
TildePercent == <<126, 37, 36>>                                \* "~%$"
TildeBang == <<126, 33, 36>>                                   \* "~!$"

Inputs == BoundedInputs \cup {Banana, Mississippi, TildePercent, TildeBang}

\* Texts of 1..MaxLen characters over 'a', 'b', '$' that do not end with
\* '$' or hold a '$' before the last position
SentinelInputs ==
  {w \in UNION {[1..k -> {97, 98, Dollar}] : k \in 1..MaxLen} :
     \/ w[Len(w)] # Dollar
     \/ \E i \in 1..(Len(w) - 1) : w[i] = Dollar}

\* Valid texts over 'a', 'b' with up to MaxTree characters before '$':
\* long enough for repeats that take the active node below the root
TreeInputs ==
  UNION {{w \o <<Dollar>> : w \in [1..k -> {97, 98}]} : k \in 0..MaxTree}

BitSeqs(n) == UNION {[1..k -> {0, 1}] : k \in 0..n}

\* -------------------------------------------------------- state machine
VARIABLES
  string,            \* the text given to RunlengthEncoder / SuffixTree
  nodes,             \* the Node objects of the tree, root first
  active_node, remainder_start, remainder_end, last_j, prev_added_node,
  phase, j,          \* add_string's i and add_char's j
  rule,              \* rule applied by the last suffix_extension (0: none)
  pc,                \* position in the program
  suffix_array, bwt_string,
  unique_char_arr, freq_arr, letters_encoding,
  encoded_num,       \* the EliasCode cache
  enc,               \* the parts of final_encoded_bin built by encode()
  binary,            \* the buffer given to RunlengthDecoder
  decoded,           \* outcome of RunlengthDecoder.decode()
  el_num, el_suffix, el_bits, el_dec   \* one EliasCode encode / decode call

treeVars == <<nodes, active_node, remainder_start, remainder_end, last_j,
              prev_added_node, phase, j, rule>>
encVars == <<suffix_array, bwt_string, unique_char_arr, freq_arr,
             letters_encoding, enc>>
decVars == <<binary, decoded>>
elVars == <<el_num, el_suffix, el_bits, el_dec>>
vars == <<string, treeVars, pc, encVars, encoded_num, decVars, elVars>>

NoEnc == [prefix |-> <<>>, header |-> <<>>, runs |-> <<>>, body |-> <<>>,
          unpadded |-> <<>>, bits |-> <<>>]
NoDec == [status |-> "none", string |-> <<>>, bwt |-> <<>>]
NoElDec == [error |-> FALSE, binary |-> <<>>, num |-> 0]

\* Everything but the input string, as SuffixTree.__init__ leaves it when
\* add_string has set active_node to the root (lines 64-72, 275-276)
InitRest ==
  /\ nodes = << [Node EXCEPT !.suffix_link = RootId] >>
  /\ active_node = RootId
  /\ remainder_start = 0
  /\ remainder_end = -1
  /\ last_j = -1
  /\ prev_added_node = None
  /\ phase = 0
  /\ j = 0
  /\ rule = 0
  /\ suffix_array = <<>>
  /\ bwt_string = <<>>
  /\ unique_char_arr = <<>>
  /\ freq_arr = <<>>
  /\ letters_encoding = <<>>
  /\ enc = NoEnc
  /\ binary = <<>>
  /\ decoded = NoDec
  /\ el_num = 0
  /\ el_suffix = <<>>
  /\ el_bits = <<>>
  /\ el_dec = NoElDec

Init ==
  /\ string \in Inputs
  /\ pc = "add_char"
  /\ encoded_num = <<>>
  /\ InitRest

\* Tree that forgets the internal node made by the previous extension
Tree_no_prev == TreeState(nodes, active_node, remainder_start, remainder_end,
                          last_j, None)

Tree == TreeState(nodes, active_node, remainder_start, remainder_end,
                  last_j, prev_added_node)

SetTree(t) ==
  /\ nodes' = t.nodes
  /\ active_node' = t.active_node
  /\ remainder_start' = t.remainder_start
  /\ remainder_end' = t.remainder_end
  /\ last_j' = t.last_j
  /\ prev_added_node' = t.prev_added_node

\* AfterPhase that leaves add_string's loop one phase early
AfterPhase_early(ph) ==
  IF ph + 2 < Len(string) THEN "add_char" ELSE "tree_done"

\* add_string's loop: the phase after ph, or the end of the construction
AfterPhase(ph) == IF ph + 1 < Len(string) THEN "add_char" ELSE "tree_done"

\* AddChar that starts the j loop at 0 in every phase
AddChar_from_zero ==
  /\ pc = "add_char"
  /\ prev_added_node' = None
  /\ j' = 0
  /\ pc' = "extend"
  /\ phase' = phase
  /\ UNCHANGED <<string, nodes, active_node, remainder_start, remainder_end,
                 last_j, rule, encVars, encoded_num, decVars, elVars>>

\* add_char, lines 293-295: reset prev_added_node and enter the j loop
AddChar ==
  /\ pc = "add_char"
  /\ prev_added_node' = None
  /\ j' = last_j + 1
  /\ IF last_j + 1 <= phase
     THEN pc' = "extend" /\ phase' = phase
     ELSE pc' = AfterPhase(phase) /\ phase' = phase + 1
  /\ UNCHANGED <<string, nodes, active_node, remainder_start, remainder_end,
                 last_j, rule, encVars, encoded_num, decVars, elVars>>

\* add_char, lines 296-304: one round of the j loop
Extend ==
  /\ pc = "extend"
  /\ LET sc == skip_count(string, Tree, phase)
         se == suffix_extension(string, sc.t, phase, j, sc.next_edge_index)
     IN IF sc.error \/ se.error
        THEN /\ pc' = "error"
             /\ UNCHANGED treeVars
        ELSE /\ rule' = se.rule
             /\ IF se.brk
                THEN /\ SetTree(se.t)
                     /\ j' = j
                     /\ phase' = phase + 1
                     /\ pc' = AfterPhase(phase)
                ELSE /\ SetTree(suffix_link_jump(se.t))
                     /\ IF j + 1 <= phase
                        THEN j' = j + 1 /\ phase' = phase /\ pc' = pc
                        ELSE /\ j' = j
                             /\ phase' = phase + 1
                             /\ pc' = AfterPhase(phase)
  /\ UNCHANGED <<string, encVars, encoded_num, decVars, elVars>>

\* RunlengthEncoder.get_bwt, lines 300-303
GetBwt ==
  /\ pc = "tree_done"
  /\ suffix_array' = get_suffix_array(nodes)
  /\ bwt_string' = get_bwt(string, suffix_array')
  /\ pc' = "bwt"
  /\ UNCHANGED <<string, treeVars, unique_char_arr, freq_arr,
                 letters_encoding, enc, encoded_num, decVars, elVars>>

\* RunlengthEncoder.__init__, lines 283-285
EncoderInit ==
  /\ pc = "bwt"
  /\ unique_char_arr' = get_freq_arr(bwt_string).unique_char_arr
  /\ freq_arr' = get_freq_arr(bwt_string).freq_arr
  /\ letters_encoding' = get_letters_encoding(freq_arr')
  /\ encoded_num' = EliasMemo(Len(string))
  /\ pc' = "ready"
  /\ UNCHANGED <<string, treeVars, suffix_array, bwt_string, enc,
                 decVars, elVars>>

\* RunlengthEncoder.encode
Encode ==
  /\ pc = "ready"
  /\ LET r == RunlengthEncode(Len(string), bwt_string, unique_char_arr,
                              letters_encoding, encoded_num)
     IN IF r.error
        THEN pc' = "error" /\ UNCHANGED <<enc, encoded_num>>
        ELSE /\ enc' = [prefix |-> r.prefix, header |-> r.header,
                        runs |-> r.runs, body |-> r.body,
                        unpadded |-> r.unpadded, bits |-> r.bits]
             /\ encoded_num' = r.memo
             /\ pc' = "encoded"
  /\ UNCHANGED <<string, treeVars, suffix_array, bwt_string, unique_char_arr,
                 freq_arr, letters_encoding, decVars, elVars>>

\* RunlengthDecoder(binary).decode() on the encoder's output, or on the
\* unpadded stream followed by arbitrary bits
Decode ==
  /\ pc = "encoded"
  /\ \E buf \in {enc.bits} \cup {enc.unpadded \o t : t \in BitSeqs(MaxTail)} :
       /\ binary' = buf
       /\ decoded' = RunlengthDecode(buf)
  /\ pc' = "decoded"
  /\ UNCHANGED <<string, treeVars, encVars, encoded_num, elVars>>

Next == AddChar \/ Extend \/ GetBwt \/ EncoderInit \/ Encode \/ Decode

Spec == Init /\ [][Next]_vars

\* --------------------------------------- a stand-alone SuffixTree object
\* SuffixTree(string): the constructor alone, on the texts of TreeInputs
InitTree ==
  /\ string \in TreeInputs
  /\ pc = "add_char"
  /\ encoded_num = <<>>
  /\ InitRest

NextTree == AddChar \/ Extend

SpecTree == InitTree /\ [][NextTree]_vars

\* ----------------------- the encoder given a text without a proper '$'
\* RunlengthEncoder(string) followed by encode() and a decode of the
\* result, for the texts of SentinelInputs; the code is the same.
InitSentinel ==
  /\ string \in SentinelInputs
  /\ pc = "add_char"
  /\ encoded_num = <<>>
  /\ InitRest

SpecSentinel == InitSentinel /\ [][Next]_vars

\* ------------------------------------- a stand-alone EliasCode object
\* EliasCode(MaxNum): encode is called on numbers the cache has room for,
\* decode on the code word followed by arbitrary bits.
InitElias ==
  /\ string = <<>>
  /\ pc = "elias"
  /\ encoded_num = EliasMemo(MaxNum)
  /\ InitRest

\* EliasCode.encode(num)
ElEncode ==
  /\ pc \in {"elias", "elias_decoded", "elias_cut"}
  /\ \E num \in 1..Len(encoded_num) :
       /\ \/ encoded_num[num] # <<>>
          \/ Cardinality({i \in DOMAIN encoded_num : encoded_num[i] # <<>>})
               < MaxCalls
       /\ LET r == EliasEncode(encoded_num, num)
          IN /\ el_num' = num
             /\ el_bits' = r.bits
             /\ encoded_num' = r.memo
  /\ el_suffix' = <<>>
  /\ el_dec' = NoElDec
  /\ pc' = "elias_encoded"
  /\ UNCHANGED <<string, treeVars, encVars, decVars>>

\* EliasCode.decode(binary) with binary = encode(num) ++ suffix
ElDecode ==
  /\ pc = "elias_encoded"
  /\ \E suffix \in BitSeqs(MaxTail) :
       /\ el_suffix' = suffix
       /\ el_dec' = EliasDecode(el_bits \o suffix)
  /\ pc' = "elias_decoded"
  /\ UNCHANGED <<string, treeVars, encVars, encoded_num, decVars,
                 el_num, el_bits>>

NextElias == ElEncode \/ ElDecode

SpecElias == InitElias /\ [][NextElias]_vars

\* EliasCode.decode(binary) with binary = encode(num) cut short inside its
\* last component: of the Len(decimal_to_binary(num)) bits of the number
\* component, the last d are missing.
ElDecodeCut ==
  /\ pc = "elias_encoded"
  /\ \E d \in 1..Len(decimal_to_binary(el_num)) :
       /\ binary' = Take(el_bits, Len(el_bits) - d)
       /\ el_dec' = EliasDecode(binary')
  /\ el_suffix' = <<>>
  /\ pc' = "elias_cut"
  /\ UNCHANGED <<string, treeVars, encVars, encoded_num, decoded,
                 el_num, el_bits>>

NextEliasCut == ElEncode \/ ElDecodeCut

SpecEliasCut == InitElias /\ [][NextEliasCut]_vars

\* ------------------------------- a stand-alone RunlengthDecoder object
\* RunlengthDecoder(binary).decode() for an arbitrary buffer of at most
\* MaxBuf bits; a decoder object decodes once.
InitDecoder ==
  /\ string = <<>>
  /\ pc = "decoder"
  /\ encoded_num = <<>>
  /\ InitRest

DecodeAny ==
  /\ pc = "decoder"
  /\ \E buf \in BitSeqs(MaxBuf) :
       /\ binary' = buf
       /\ decoded' = RunlengthDecode(buf)
  /\ pc' = "decoder_done"
  /\ UNCHANGED <<string, treeVars, encVars, encoded_num, elVars>>

NextDecoder == DecodeAny

SpecDecoder == InitDecoder /\ [][NextDecoder]_vars

\* ------------------------------------ a stand-alone HuffmanCode object
\* The characters given a frequency, and the frequency tables over them
HuffChars == {Dollar, 97, 98, 99, 100}

FreqTables ==
  {[i \in 1..ASCII_NUM |->
      IF get_char_from_index(i - 1) \in HuffChars
      THEN f[get_char_from_index(i - 1)] ELSE 0]
   : f \in [HuffChars -> 0..MaxFreq]}

InitHuffman ==
  /\ string = <<>>
  /\ pc = "huffman"
  /\ encoded_num = <<>>
  /\ InitRest

\* HuffmanCode(freq_arr): with no frequency at all the heap is empty and
\* freq_heap[0] raises (line 129)
HuffmanInit ==
  /\ pc = "huffman"
  /\ \E table \in FreqTables :
       /\ freq_arr' = table
       /\ IF \A i \in DOMAIN table : table[i] = 0
          THEN pc' = "error" /\ letters_encoding' = letters_encoding
          ELSE /\ pc' = "huffman_done"
               /\ letters_encoding' = get_letters_encoding(table)
  /\ UNCHANGED <<string, treeVars, suffix_array, bwt_string,
                 unique_char_arr, enc, encoded_num, decVars, elVars>>

NextHuffman == HuffmanInit

SpecHuffman == InitHuffman /\ [][NextHuffman]_vars

\* ---------------------------------------------------------- properties
\* A valid encoder input: characters in [36, 126], '$' last and only last
Valid(str) ==
  /\ Len(str) >= 1
  /\ str[Len(str)] = Dollar
  /\ \A i \in 1..(Len(str) - 1) :
       str[i] > MIN_ASCII_CHAR_NO /\ str[i] <= MAX_ASCII_CHAR_NO

HasOutOfAlphabet(str) ==
  \E i \in DOMAIN str : str[i] < MIN_ASCII_CHAR_NO \/ str[i] > MAX_ASCII_CHAR_NO

Encoded == pc \in {"encoded", "decoded"}

RECURSIVE Flatten(_)
Flatten(seqs) ==
  IF seqs = <<>> THEN <<>> ELSE Head(seqs) \o Flatten(Tail(seqs))

RECURSIVE SumSeq(_)
SumSeq(seq) == IF seq = <<>> THEN 0 ELSE Head(seq) + SumSeq(Tail(seq))

\* lexicographic order on sequences of character codes
LexLess(x, y) ==
  \E i \in 0..Min(Len(x), Len(y)) :
     /\ SubSeq(x, 1, i) = SubSeq(y, 1, i)
     /\ \/ i = Len(x) /\ i < Len(y)
        \/ i < Len(x) /\ i < Len(y) /\ x[i + 1] < y[i + 1]

SuffixAt(str, i) == SubSeq(str, i + 1, Len(str))

IsSortedSuffixArray(str, sa) ==
  /\ Len(sa) = Len(str)
  /\ {sa[k] : k \in DOMAIN sa} = 0..(Len(str) - 1)
  /\ \A k \in 1..(Len(sa) - 1) :
       LexLess(SuffixAt(str, sa[k]), SuffixAt(str, sa[k + 1]))

\* C1: for every valid s of length n >= 2, decoding the encoder's output
\* (RunlengthDecoder(RunlengthEncoder(s).encode()).decode()) returns s.
RoundTrip ==
  (pc = "decoded" /\ Valid(string) /\ Len(string) >= 2 /\ binary = enc.bits)
    => (decoded.status = "ok" /\ decoded.string = string)

RoundTripWitness ==
  /\ pc = "decoded"
  /\ binary = enc.bits
  /\ string = Mississippi
  /\ decoded.string = Mississippi

\* C2: for every valid s, get_suffix_array() is the list of positions
\* 0..n-1 sorted by the lexicographic order of the suffixes; [1, 0] for
\* "a$" and [6, 5, 3, 1, 0, 4, 2] for "banana$".
SuffixArraySorted ==
  (pc \in {"bwt", "ready", "encoded", "decoded"} /\ Valid(string))
    => /\ IsSortedSuffixArray(string, suffix_array)
       /\ string = <<97, 36>> => suffix_array = <<1, 0>>
       /\ string = Banana => suffix_array = <<6, 5, 3, 1, 0, 4, 2>>

SuffixArrayWitness ==
  /\ pc = "bwt"
  /\ string = Banana
  /\ suffix_array = <<6, 5, 3, 1, 0, 4, 2>>

\* C3: for every n >= 1 and every bit suffix, EliasCode.decode applied to
\* encode(n) followed by the suffix returns n and leaves exactly the suffix.
EliasRoundTrip ==
  pc = "elias_decoded"
    => (~el_dec.error /\ el_dec.num = el_num /\ el_dec.binary = el_suffix)

EliasRoundTripWitness ==
  /\ pc = "elias_decoded"
  /\ el_num >= 16
  /\ el_suffix # <<>>
  /\ el_dec.num = el_num
  /\ \E i \in DOMAIN encoded_num : i # el_num /\ encoded_num[i] # <<>>

\* C4: for every valid s, get_string_from_bwt applied to the forward BWT
\* of s (BWT[k] = s[(SA[k] - 1) mod n]) returns s.
InverseBwt ==
  (pc = "decoded" /\ Valid(string) /\ decoded.bwt = bwt_string)
    => (decoded.status = "ok" /\ decoded.string = string)

InverseBwtWitness ==
  /\ pc = "decoded"
  /\ string = Banana
  /\ decoded.bwt = <<97, 110, 110, 98, 36, 97, 97>>
  /\ decoded.bwt = bwt_string
  /\ decoded.string = Banana

\* the distinct characters of a string in order of first appearance
FirstAppearance(str) ==
  LET firsts == Ascending({k \in DOMAIN str :
                             \A m \in 1..(k - 1) : str[m] # str[k]})
  IN [i \in DOMAIN firsts |-> str[firsts[i]]]

\* the ASCII code on exactly 7 bits, most significant first
Bin7(c) == [i \in 1..7 |-> (c \div (2 ^ (7 - i))) % 2]

CodeOf(c) == letters_encoding[get_index_from_char(c) + 1]

HeaderEntry(c) == Bin7(c) \o elias_code(Len(CodeOf(c))) \o CodeOf(c)

\* C5: the stream begins with Elias(n), Elias(u), then one entry per
\* distinct character in order of first appearance in the BWT string:
\* 7-bit ASCII code, Elias(length of the Huffman code), the code bits.
HeaderLayout ==
  (Encoded /\ Valid(string))
    => LET chars == FirstAppearance(bwt_string)
       IN /\ enc.prefix = elias_code(Len(string)) \o elias_code(Len(chars))
          /\ enc.header =
               Flatten([i \in DOMAIN chars |-> HeaderEntry(chars[i])])
          /\ Take(enc.bits, Len(enc.prefix) + Len(enc.header))
               = enc.prefix \o enc.header

\* C6: the body is one pair H(c), Elias(k) per maximal run of k >= 1
\* equal characters of the BWT string: neighbouring runs differ in their
\* character, the runs spell the BWT string and their lengths sum to n.
BodyRuns ==
  (Encoded /\ Valid(string))
    => /\ \A k \in DOMAIN enc.runs : enc.runs[k][2] >= 1
       /\ \A k \in 1..(Len(enc.runs) - 1) :
            enc.runs[k][1] # enc.runs[k + 1][1]
       /\ Flatten([k \in DOMAIN enc.runs |->
                     [i \in 1..enc.runs[k][2] |-> enc.runs[k][1]]])
            = bwt_string
       /\ SumSeq([k \in DOMAIN enc.runs |-> enc.runs[k][2]]) = Len(string)
       /\ enc.body =
            Flatten([k \in DOMAIN enc.runs |->
                       CodeOf(enc.runs[k][1]) \o elias_code(enc.runs[k][2])])
       /\ enc.unpadded = enc.prefix \o enc.header \o enc.body

BodyRunsWitness ==
  /\ pc = "encoded"
  /\ string = Mississippi
  /\ Len(enc.runs) = 9
  /\ \E k \in DOMAIN enc.runs : enc.runs[k][2] = 2

\* C7: the bit length of the encoder's output is a multiple of 8 and the
\* bits after the last run are between 0 and 7 bits, all 0.
PaddingLaw ==
  (Encoded /\ Valid(string))
    => /\ Len(enc.bits) % 8 = 0
       /\ Len(enc.bits) - Len(enc.unpadded) \in 0..7
       /\ enc.bits = enc.unpadded \o Zeros(Len(enc.bits) - Len(enc.unpadded))

PaddingWitness ==
  /\ pc = "encoded"
  /\ Valid(string)
  /\ Len(enc.unpadded) % 8 = 0
  /\ Len(enc.unpadded) > 0

\* C8: for every valid s and every bit sequence t, decoding the unpadded
\* encoding of s followed by t returns s.
TailIndependent ==
  (pc = "decoded" /\ Valid(string)
     /\ Take(binary, Len(enc.unpadded)) = enc.unpadded)
    => (decoded.status = "ok" /\ decoded.string = string)

\* C9: with exactly one character of non-zero frequency, the code stored
\* for it in letters_encoding is the single bit 0.
SingleSymbolCode ==
  (pc \in {"ready", "encoded", "decoded"}
     /\ Cardinality({i \in DOMAIN freq_arr : freq_arr[i] # 0}) = 1)
    => \A i \in DOMAIN freq_arr :
         freq_arr[i] # 0 => letters_encoding[i] = <<0>>

\* C10: an input with a character outside [36, 126] makes the encoder
\* signal an error; no bit-stream is produced.
OutOfAlphabetRejected == HasOutOfAlphabet(string) => ~Encoded

\* '$' is the last character and occurs nowhere else
SentinelOk(str) ==
  /\ Len(str) >= 1
  /\ str[Len(str)] = Dollar
  /\ \A i \in 1..(Len(str) - 1) : str[i] # Dollar

\* C11: an input that does not end with '$', or holds '$' before its last
\* position, makes the encoder signal an error; no bit-stream is produced.
MissingSentinelRejected == ~SentinelOk(string) => ~Encoded

\* C12: when the buffer given to EliasCode.decode ends inside the number
\* component (fewer bits remain than the length component announced),
\* decode signals an error and returns no integer.
EliasCutRejected == pc = "elias_cut" => el_dec.error

\* C13: for every finite buffer, RunlengthDecoder.decode terminates, by
\* returning the decoded string or by raising an error; the search for a
\* prefix of the remaining stream in the decoding table cannot run forever.
DecodeTerminates == pc = "decoder_done" => decoded.status # "diverge"

\* the length n announced at the start of the buffer
DeclaredLength(buf) == EliasDecode(buf).num

\* C14: when a decoded run is longer than the number of characters still
\* to come (the runs read add up to more than the declared length n),
\* decode signals an error and returns no string.
RunOverflowRejected ==
  (pc = "decoder_done" /\ Len(decoded.bwt) > DeclaredLength(binary))
    => decoded.status = "error"

\* the nodes below a node, and the nodes of the tree hanging from the root
ChildNodes(nds, v) ==
  {nds[v].children[i].child_node : i \in 0..(ASCII_NUM - 1)} \ {None}

RECURSIVE reach(_, _, _)
reach(nds, frontier, seen) ==
  IF frontier = {} THEN seen
  ELSE LET nxt == UNION {ChildNodes(nds, v) : v \in frontier} \ seen
       IN reach(nds, nxt, seen \cup nxt)

TreeNodes(nds) == reach(nds, {RootId}, {RootId})
TreeLeaves(nds) == {v \in TreeNodes(nds) : nds[v].leaf_num # NAN}
Constructed == pc \in {"tree_done", "bwt", "ready", "encoded", "decoded"}

\* at every moment of the construction on a valid s: last_j + 1 leaves,
\* numbered 0..last_j; n leaves once the construction is over
LeafCount ==
  Valid(string)
    => /\ Cardinality(TreeLeaves(nodes)) = last_j + 1
       /\ {nodes[v].leaf_num : v \in TreeLeaves(nodes)} = 0..last_j
       /\ Constructed => last_j + 1 = Len(string)

\* an extension that adds nodes adds, last, one leaf numbered j, and leaves
\* the leaf numbers of the older nodes alone
NewLeafIsJ ==
  (Valid(string) /\ Len(nodes') > Len(nodes))
    => /\ pc = "extend"
       /\ nodes'[Len(nodes')].leaf_num = j
       /\ \A v \in (Len(nodes) + 1)..(Len(nodes') - 1) :
            nodes'[v].leaf_num = NAN
       /\ \A v \in 1..Len(nodes) : nodes'[v].leaf_num = nodes[v].leaf_num

\* C15: on a valid s of length n the finished tree has exactly n leaves
\* whose leaf_num values are 0..n-1, each once; during construction the
\* number of leaves is last_j + 1 and the leaf made in extension j has
\* leaf_num j.
LeafNumbering == [](LeafCount) /\ [][NewLeafIsJ]_vars

LeafNumberingWitness ==
  /\ pc = "tree_done"
  /\ string = Mississippi
  /\ Cardinality(TreeLeaves(nodes)) = 12
  /\ TreeNodes(nodes) = 1..Len(nodes)
  /\ Len(nodes) > 12 + 1

\* the nodes made by a split, and the occupied slots of a child table
SplitNodes(nds) == {v \in 2..Len(nds) : nds[v].leaf_num = NAN}
EdgeSlots(nds, v) ==
  {i \in 0..(ASCII_NUM - 1) : nds[v].children[i] # NoEdge}
FirstChar(nds, v, i) == string[nds[v].children[i].start_point + 1]

\* C16: after every extension of every phase, every non-root node with
\* leaf_num = NAN has at least two child edges, which start with different
\* characters (the edge in the slot of a character starts with it).
InternalBranching ==
  Valid(string)
    => \A v \in SplitNodes(nodes) :
         /\ Cardinality(EdgeSlots(nodes, v)) >= 2
         /\ \A i \in EdgeSlots(nodes, v) :
              get_index_from_char(FirstChar(nodes, v, i)) = i
         /\ \A i, k \in EdgeSlots(nodes, v) :
              i # k => FirstChar(nodes, v, i) # FirstChar(nodes, v, k)

InternalBranchingWitness ==
  /\ pc = "extend"
  /\ string = Mississippi
  /\ rule = 1
  /\ Cardinality(SplitNodes(nodes)) >= 3
  /\ \E v \in SplitNodes(nodes) : Cardinality(EdgeSlots(nodes, v)) = 3

\* an explicit extension is about to run only for j = last_j + 1 <= i
ExplicitAfterLastJ == pc = "extend" => (j = last_j + 1 /\ j <= phase)

\* one step of the construction: last_j does not decrease; an extension
\* by rule 2 adds one to it and, if j < i, is followed by extension j + 1
\* of the same phase; an extension by rule 3 leaves it alone and ends the
\* phase; no other step changes it
LastJStep ==
  /\ last_j' >= last_j
  /\ (pc = "extend" /\ pc' # "error")
       => /\ rule' \in {1, 2, 3}
          /\ rule' \in {1, 2}
               => /\ last_j' = last_j + 1
                  /\ j < phase => (pc' = "extend" /\ j' = j + 1
                                     /\ phase' = phase)
                  /\ j = phase => (pc' # "extend" /\ phase' = phase + 1)
          /\ rule' = 3
               => (last_j' = last_j /\ pc' # "extend" /\ phase' = phase + 1)
  /\ (pc # "extend" \/ pc' = "error") => last_j' = last_j

\* C17: last_j never decreases, grows by exactly one on each rule-2
\* extension and is unchanged by rule 3; in phase i the explicit
\* extensions are those for j from last_j + 1 up to i, stopping at the
\* first rule 3; none is performed for a j <= last_j.
LastJMonotone == [](ExplicitAfterLastJ) /\ [][LastJStep]_vars

LastJMonotoneWitness ==
  /\ pc = "extend"
  /\ string = Banana
  /\ phase = 6
  /\ j = 5
  /\ last_j = 4
  /\ rule = 2

\* the node above a non-root node, the edge into it, and the string spelled
\* from the root to an internal node
ParentOf(nds, v) == CHOOSE p \in 1..Len(nds) : v \in ChildNodes(nds, p)
EdgeInto(nds, v) ==
  LET p == ParentOf(nds, v)
      i == CHOOSE i \in EdgeSlots(nds, p) : nds[p].children[i].child_node = v
  IN nds[p].children[i]

RECURSIVE PathLabel(_, _)
PathLabel(nds, v) ==
  IF v = RootId THEN <<>>
  ELSE PathLabel(nds, ParentOf(nds, v))
       \o SubSeq(string, EdgeInto(nds, v).start_point + 1,
                 EdgeInto(nds, v).end_point + 1)

PhaseEnded == pc \in {"add_char", "tree_done"}

\* C18: at the end of every phase the root links to itself and every
\* other internal node, of path label x alpha, links to the internal node
\* of path label alpha; so the link to the root given at the split has
\* been replaced within the phase whenever alpha is not empty.
SuffixLinks ==
  (Valid(string) /\ PhaseEnded)
    => /\ nodes[RootId].suffix_link = RootId
       /\ \A v \in SplitNodes(nodes) :
            /\ nodes[v].suffix_link \in SplitNodes(nodes) \cup {RootId}
            /\ PathLabel(nodes, v) # <<>>
            /\ PathLabel(nodes, nodes[v].suffix_link)
                 = Tail(PathLabel(nodes, v))

SuffixLinksWitness ==
  /\ pc = "tree_done"
  /\ string = Mississippi
  /\ \E v \in SplitNodes(nodes) :
       /\ PathLabel(nodes, v) = <<105, 115, 115, 105>>
       /\ nodes[v].suffix_link # RootId
       /\ PathLabel(nodes, nodes[v].suffix_link) = <<115, 115, 105>>

\* s[remainder_start..remainder_end], empty when the end is before the start
Remainder(t) ==
  IF t.remainder_end >= t.remainder_start
  THEN SubSeq(string, t.remainder_start + 1, t.remainder_end + 1)
  ELSE <<>>

\* the active point of tree state t stands for s[jj..i-1]
ActivePointAt(t, i, jj) ==
  /\ t.active_node \in SplitNodes(t.nodes) \cup {RootId}
  /\ Len(PathLabel(t.nodes, t.active_node))
       + Max(0, t.remainder_end - t.remainder_start + 1) = i - jj
  /\ PathLabel(t.nodes, t.active_node) \o Remainder(t)
       = SubSeq(string, jj + 1, i)

\* C19: at the start of every explicit extension j of phase i the string
\* depth of active_node plus max(0, remainder_end - remainder_start + 1)
\* is i - j and the path to active_node followed by the remainder spells
\* s[j..i-1]; skip_count keeps this, and so do the suffix-link jump and
\* the remainder_start increment at the root for the next extension.
ActivePoint ==
  (Valid(string) /\ pc = "extend")
    => /\ ActivePointAt(Tree, phase, j)
       /\ ActivePointAt(skip_count(string, Tree, phase).t, phase, j)

ActivePointWitness ==
  /\ pc = "extend"
  /\ active_node # RootId
  /\ remainder_end >= remainder_start
  /\ skip_count(string, Tree, phase).t.active_node # active_node
  /\ rule = 2

\* the slots of the characters of non-zero frequency
Present == {i \in DOMAIN freq_arr : freq_arr[i] # 0}

IsPrefix(x, y) == Len(x) <= Len(y) /\ SubSeq(y, 1, Len(x)) = x

\* the decoding table the decoder builds from the header entries of the
\* present characters
RECURSIVE TableOf(_, _, _)
TableOf(slots, k, table) ==
  IF k > Len(slots) THEN table
  ELSE TableOf(slots, k + 1,
         add_to_decoder_table(table, letters_encoding[slots[k]],
                              get_char_from_index(slots[k] - 1)))

\* C20: with two or more characters of non-zero frequency, the codes in
\* letters_encoding of the present characters are non-empty bit strings,
\* none a prefix of another (so pairwise distinct); the shortest prefix of
\* a code followed by any bits that is a key of the decoding table is that
\* code; characters of zero frequency have no code.
PrefixFree ==
  (pc = "huffman_done" /\ Cardinality(Present) >= 2)
    => LET table == TableOf(Ascending(Present), 1, EmptyTable)
       IN /\ \A i \in Present :
               /\ letters_encoding[i] # NoCode
               /\ letters_encoding[i] \in BitSeqs(Cardinality(Present)) \ {<<>>}
          /\ \A i, k \in Present :
               i # k => ~IsPrefix(letters_encoding[i], letters_encoding[k])
          /\ \A i \in (DOMAIN freq_arr) \ Present :
               letters_encoding[i] = NoCode
          /\ \A i \in Present : \A t \in BitSeqs(MaxTail) :
               LET stream == letters_encoding[i] \o t
                   c == ShortestCode(stream, table)
               IN /\ c = Len(letters_encoding[i])
                  /\ table[Take(stream, c)] = get_char_from_index(i - 1)

PrefixFreeWitness ==
  /\ pc = "huffman_done"
  /\ Cardinality(Present) = 5
  /\ \E i, k \in Present :
       Len(letters_encoding[i]) = 1 /\ Len(letters_encoding[k]) = 4

\* build_tree's rounds for the table, the nodes in the order they are
\* popped, and the rank of a node among the pushes (leaves in index order,
\* then the combined nodes round by round)
Rounds == build_rounds(get_freq_heap(freq_arr))
Pops ==
  [k \in 1..(2 * Len(Rounds)) |->
     IF k % 2 = 1 THEN Rounds[(k + 1) \div 2].first
     ELSE Rounds[k \div 2].second]
LeafOrder == Ascending(Present)
PushIndex(node) ==
  IF node.left = <<>>
  THEN CHOOSE k \in 1..Len(LeafOrder) :
         get_char_from_index(LeafOrder[k] - 1) = node.data[1]
  ELSE Len(LeafOrder)
       + (CHOOSE r \in 1..Len(Rounds) : Rounds[r].combined = node)

\* each pop yields a node of least frequency of the heap, so the nodes
\* come out in ascending order of frequency
PopsAscending ==
  /\ \A r \in DOMAIN Rounds : \A k \in DOMAIN Rounds[r].before :
       /\ Rounds[r].first.freq <= Rounds[r].before[k].freq
       /\ Rounds[r].before[k] # Rounds[r].first
            => Rounds[r].second.freq <= Rounds[r].before[k].freq
  /\ \A k \in 1..(Len(Pops) - 1) : Pops[k].freq <= Pops[k + 1].freq

\* nodes of equal frequency come out in the order of their pushes
PopsStable ==
  \A a, b \in DOMAIN Pops :
     (a < b /\ Pops[a].freq = Pops[b].freq)
       => PushIndex(Pops[a]) < PushIndex(Pops[b])

\* the first node popped is the left child (bit 0) and the second the
\* right child (bit 1) of the combined node, which ends up in the tree
\* whose paths are the codes of letters_encoding
LeftRight ==
  /\ \A r \in DOMAIN Rounds :
       /\ Rounds[r].combined.left = <<Rounds[r].first>>
       /\ Rounds[r].combined.right = <<Rounds[r].second>>
       /\ Rounds[r].combined.freq
            = Rounds[r].first.freq + Rounds[r].second.freq
       /\ \A x \in DOMAIN Rounds[r].first.data :
          \A y \in DOMAIN Rounds[r].second.data :
            LET cx == CodeOf(Rounds[r].first.data[x])
                cy == CodeOf(Rounds[r].second.data[y])
            IN \E d \in 0..(Min(Len(cx), Len(cy)) - 1) :
                 /\ SubSeq(cx, 1, d) = SubSeq(cy, 1, d)
                 /\ cx[d + 1] = 0
                 /\ cy[d + 1] = 1
  /\ Rounds # <<>> => build_tree(freq_arr) = Rounds[Len(Rounds)].combined

HeapCase == pc = "huffman_done" /\ Cardinality(Present) >= 2

\* C21: in build_tree the heap yields nodes in ascending order of
\* frequency and, among nodes of equal frequency, in the order in which
\* they were pushed; the first popped node becomes the left child and the
\* second the right child of the combined node.
StableHeapOrder == HeapCase => (PopsAscending /\ PopsStable /\ LeftRight)

\* C21 as amended: ascending order of frequency and left / right as
\* claimed; nodes of equal frequency come out in the order the binary
\* heap's array gives them, which need not be the order of the pushes.
HeapOrder == HeapCase => (PopsAscending /\ LeftRight)

HeapOrderWitness ==
  /\ HeapCase
  /\ Len(Rounds) = 4
  /\ ~PopsStable
  /\ \E a, b \in DOMAIN Pops :
       /\ a < b
       /\ Pops[a].freq = Pops[b].freq
       /\ Pops[a].left # <<>>
       /\ Pops[b].left = <<>>

====
